---- MODULE Spec2Model ----
(***************************************************************************)
(* Model of the dialogue manager of src/src/main.ts: the xstate machine    *)
(* "DM" (SetupFurhat, Loop, Manipulation, End, Done), its context, the     *)
(* promise actors it invokes and the pure helpers it calls.                *)
(*                                                                         *)
(* Text is modelled as text: utterances and message contents are strings,  *)
(* and toLowerCase, trim, includes and the decision regular expression     *)
(* are computed character by character.                                    *)
(***************************************************************************)
EXTENDS Integers, Sequences, FiniteSets, TLC

VARIABLES
    state,            \* the active leaf state of the machine
    messages,         \* context.messages
    lastResult,       \* context.lastResult
    extractedPerson,  \* context.extractedPerson
    isFirstMessage,   \* context.isFirstMessage
    event,            \* the event (actor settlement) that caused the last transition
    lastResponse,     \* what the completion endpoint answered to the last request
    speakCalls,       \* number of fhSpeak invocations made so far
    draws,            \* the Math.random() draws of the last selector evaluation
    selectorRuns,     \* number of evaluations of DetermineTheManipulationState so far
    loopSaid,         \* the text of the last fhSpeak invocation made by Loop.Speaking
    clarifyVisits     \* number of visits of Clarify in a row

vars == <<state, messages, lastResult, extractedPerson, isFirstMessage,
          event, lastResponse, speakCalls, draws, selectorRuns, loopSaid, clarifyVisits>>

context == <<messages, lastResult, extractedPerson, isFirstMessage>>

----------------------------------------------------------------------------
(* Bounds of the model *)

\* Loop.Listening takes a new utterance only while the transcript is shorter.
MaxMessages == 6

\* fhSpeak is invoked at most this many times in a session.
MaxSpeakCalls == 4

\* An utterance handed to the Decision Extractor on its own has at most this
\* many phrases.
MaxPhrases == 4

----------------------------------------------------------------------------
(* Text primitives *)

Char(s, i) == SubSeq(s, i, i)

UpperCase == "ABCDEFGHIJKLMNOPQRSTUVWXYZ"
LowerCase == "abcdefghijklmnopqrstuvwxyz"
Digits == "0123456789"

InText(c, alphabet) == \E i \in 1..Len(alphabet) : Char(alphabet, i) = c

LowerChar(c) ==
    IF InText(c, UpperCase)
    THEN Char(LowerCase, CHOOSE i \in 1..Len(UpperCase) : Char(UpperCase, i) = c)
    ELSE c

RECURSIVE toLowerCase(_)
toLowerCase(s) ==
    IF s = "" THEN ""
    ELSE LowerChar(Char(s, 1)) \o toLowerCase(SubSeq(s, 2, Len(s)))

\* \s of the regular expression and the white space String.prototype.trim strips
IsSpace(c) == c \in {" ", "\t", "\n", "\r", "\f"}

\* \w of the regular expression
IsWordChar(c) ==
    InText(c, LowerCase) \/ InText(c, UpperCase) \/ InText(c, Digits) \/ c = "_"

\* . of the regular expression: anything but a line terminator
IsDot(c) == c \notin {"\n", "\r"}

RECURSIVE trimStart(_)
trimStart(s) ==
    IF s # "" /\ IsSpace(Char(s, 1)) THEN trimStart(SubSeq(s, 2, Len(s))) ELSE s

RECURSIVE trimEnd(_)
trimEnd(s) ==
    IF s # "" /\ IsSpace(Char(s, Len(s))) THEN trimEnd(SubSeq(s, 1, Len(s) - 1)) ELSE s

trim(s) == trimEnd(trimStart(s))

\* the literal t stands in s at position p
At(s, p, t) == p >= 1 /\ p + Len(t) - 1 <= Len(s) /\ SubSeq(s, p, p + Len(t) - 1) = t

includes(s, t) == \E p \in 1..(Len(s) + 1) : At(s, p, t)

----------------------------------------------------------------------------
(* The decision pattern  /\bi\s+want\s+(?:the\s+)?(.+?)\s+to\s+jump\b/  *)

WordAt(s, p) == p >= 1 /\ p <= Len(s) /\ IsWordChar(Char(s, p))

\* \b between the characters p-1 and p
WordBoundary(s, p) == WordAt(s, p - 1) # WordAt(s, p)

\* length of the run of white space that starts at p
RECURSIVE SpaceRun(_, _)
SpaceRun(s, p) ==
    IF p >= 1 /\ p <= Len(s) /\ IsSpace(Char(s, p)) THEN 1 + SpaceRun(s, p + 1) ELSE 0

\* \s+to\s+jump\b at p. Each \s+ is followed by a letter, so of all the
\* lengths the greedy quantifier tries only the whole run can succeed.
TailAt(s, p) ==
    LET n == SpaceRun(s, p)
        q == p + n
        m == SpaceRun(s, q + 2)
        r == q + 2 + m
    IN  /\ n >= 1
        /\ At(s, q, "to")
        /\ m >= 1
        /\ At(s, r, "jump")
        /\ WordBoundary(s, r + 4)

\* the lengths (.+?) can take from position c
CaptureLens(s, c) ==
    { m \in 1..(Len(s) - c + 1) :
        /\ \A k \in c..(c + m - 1) : IsDot(Char(s, k))
        /\ TailAt(s, c + m) }

\* position right after  \bi\s+want  started at i, or 0
AfterWant(s, i) ==
    LET n == SpaceRun(s, i + 1)
    IN  IF /\ WordBoundary(s, i)
           /\ At(s, i, "i")
           /\ n >= 1
           /\ At(s, i + 1 + n, "want")
        THEN i + 1 + n + 4
        ELSE 0

\* The ways the matcher can reach the capture group from a start i:
\* k white-space characters after "want", then "the" and j more, or no "the".
CaptureStarts(s, i) ==
    LET w == AfterWant(s, i)
    IN  IF w = 0 THEN {}
        ELSE { [k |-> k, the |-> TRUE, j |-> j, pos |-> w + k + 3 + j] :
                 k \in { x \in 1..SpaceRun(s, w) : At(s, w + x, "the") },
                 j \in 1..Len(s) }
             \cup
             { [k |-> k, the |-> FALSE, j |-> 0, pos |-> w + k] :
                 k \in 1..SpaceRun(s, w) }

ValidStart(s, i, c) ==
    LET w == AfterWant(s, i)
    IN  /\ (c.the => c.j <= SpaceRun(s, w + c.k + 3))
        /\ CaptureLens(s, c.pos) # {}

\* a slip: the optional group made lazy, (?:the\s+)??
TriedBefore_LazyArticle(a, b) ==
    \/ a.k > b.k
    \/ a.k = b.k /\ ~a.the /\ b.the
    \/ a.k = b.k /\ a.the = b.the /\ a.j > b.j

\* the order in which a backtracking matcher tries them: \s+ is greedy,
\* (?:the\s+)? tries "the" first, its \s+ is greedy
TriedBefore(a, b) ==
    \/ a.k > b.k
    \/ a.k = b.k /\ a.the /\ ~b.the
    \/ a.k = b.k /\ a.the = b.the /\ a.j > b.j

Min(S) == CHOOSE x \in S : \A y \in S : x <= y

MatchStarts(s) ==
    { i \in 1..Len(s) : \E c \in CaptureStarts(s, i) : ValidStart(s, i, c) }

\* String.prototype.match: group 1 of the leftmost match, the first one the
\* matcher finds there; isNull when nothing matches
wantToJumpMatch(s) ==
    IF MatchStarts(s) = {} THEN [isNull |-> TRUE, value |-> ""]
    ELSE LET i == Min(MatchStarts(s))
             good == { c \in CaptureStarts(s, i) : ValidStart(s, i, c) }
             c == CHOOSE a \in good : \A b \in good : a = b \/ TriedBefore(a, b)
             m == Min(CaptureLens(s, c.pos))
         IN  [isNull |-> FALSE, value |-> SubSeq(s, c.pos, c.pos + m - 1)]

extractPersonFromDecision(utterance) ==
    LET lower == trim(toLowerCase(utterance))
        found == wantToJumpMatch(lower)
    IN  IF ~found.isNull
        THEN [isNull |-> FALSE, value |-> trim(found.value)]
        ELSE [isNull |-> TRUE, value |-> ""]

----------------------------------------------------------------------------
(* Fixed texts *)

SystemPrompt ==
    "You are a virtual assistant participating in a study on moral reasoning. [...]"

Greeting ==
    "Hello! We have a moral dilemma to talk about! [...]"

Fallback == "I couldn't process that. Please say it again."

ConnectionError ==
    "Error while connecting to the language model. Probably ssh tunnel is not active."

NotSure == "I am not sure."

ClarifyPrompt == "I didn't catch that. Did you say yes or no?"

ClosingLine == "Thank you for your participation."

Message(role, content) == [role |-> role, content |-> content]

InitialMessages == << Message("system", SystemPrompt), Message("assistant", Greeting) >>

----------------------------------------------------------------------------
(* What the services can answer *)

\* transcripts fhListen can resolve with
Utterances ==
    { "I want the Pilot to jump", "I want   to jump",
      "Tell me more", "maybe", "not sure", "no",
      "yes", " Yeah ", "YEP", "positive", "I think yes", "Yes, no" }

\* answers of the completion endpoint to the POST of fetchChatCompletion
Responses ==
    { [kind |-> "ok", content |-> "What makes you hesitate?"],
      [kind |-> "not_ok", content |-> ""],
      [kind |-> "network_error", content |-> ""],
      [kind |-> "no_message", content |-> ""] }

\* the cells a Math.random() draw falls in: [0,1/3), [1/3,2/3), [2/3,1)
Draws == {0, 1, 2}

----------------------------------------------------------------------------
(* Actors *)

\* fetchChatCompletion: whatever goes wrong inside the try block is caught and
\* the function returns a text; the promise never rejects.
fetchChatCompletion(response) ==
    IF response.kind = "ok"
    THEN response.content
    ELSE ConnectionError

\* the chatCompletion actor: settles with what fetchChatCompletion returns
chatCompletion(response) ==
    [type |-> "done", output |-> fetchChatCompletion(response)]

----------------------------------------------------------------------------
(* Guards *)

\* extractPersonFromDecision on each transcript of the vocabulary
extracted == [u \in Utterances |-> extractPersonFromDecision(u)]

\* guard of the first onDone transition of Loop.Listening
hasDecisionInUtterance(utterance) == ~extracted[utterance].isNull

\* the guards saidYes and saidNo of setup(), on a value of context.lastResult
saidYes(result) ==
    LET normal == trim(toLowerCase(result))
    IN  \/ normal = "yes"
        \/ normal = "yeah"
        \/ normal = "positive"
        \/ normal = "yep"
        \/ includes(normal, "yes")

saidNo(result) ==
    LET normal == trim(toLowerCase(result))
    IN  \/ normal = "no"
        \/ normal = "nope"
        \/ includes(normal, "no")

\* guard of the first onDone transition of Manipulation.Listening
affirmativeGuard(output) ==
    LET utterance == trim(toLowerCase(output))
    IN  \/ utterance = "yes"
        \/ utterance = "yeah"
        \/ utterance = "yep"
        \/ includes(utterance, "yes")

\* guard of the second onDone transition of Manipulation.Listening
negativeGuard(output) ==
    LET utterance == trim(toLowerCase(output))
    IN  \/ utterance = "no"
        \/ utterance = "nope"
        \/ includes(utterance, "no")

\* a slip: the transition without a guard made to close the session
ManipulationListeningTarget_DefaultEnds(output) ==
    IF affirmativeGuard(output) THEN "End"
    ELSE IF negativeGuard(output) THEN "Loop.ProcessingResponse"
    ELSE "End"

\* a slip: the negative transition declared before the affirmative one
ManipulationListeningTarget_NoFirst(output) ==
    IF negativeGuard(output) THEN "Loop.ProcessingResponse"
    ELSE IF affirmativeGuard(output) THEN "End"
    ELSE "Manipulation.Clarify"

\* the onDone transitions of Manipulation.Listening, in declaration order
ManipulationListeningTarget(output) ==
    IF affirmativeGuard(output) THEN "End"
    ELSE IF negativeGuard(output) THEN "Loop.ProcessingResponse"
    ELSE "Manipulation.Clarify"

\* the transition Manipulation.Listening takes on each transcript of the vocabulary
onDoneTarget == [u \in Utterances |-> ManipulationListeningTarget(u)]

\* Math.random() < 1/3 and Math.random() < 2/3, on the cell d of the draw
isSpeakingWithBuffer(d) == d < 1

\* a slip: the threshold of the first guard copied to the second
isSpeakingWithLaughter_OneThird(d) == d < 1

isSpeakingWithLaughter(d) == d < 2

\* the always transitions of DetermineTheManipulationState, in order; the
\* second guard draws only when the first has failed
DetermineTheManipulationState(d1, d2) ==
    IF isSpeakingWithBuffer(d1) THEN "Manipulation.SpeakingWithBuffer_Condition3"
    ELSE IF isSpeakingWithLaughter(d2) THEN "Manipulation.SpeakingWithLaughter_Condition2"
    ELSE "Manipulation.SpeakingWithPause_Condition1"

ConditionStates ==
    { "Manipulation.SpeakingWithPause_Condition1",
      "Manipulation.SpeakingWithLaughter_Condition2",
      "Manipulation.SpeakingWithBuffer_Condition3" }

ManipulationStates == ConditionStates \cup {"Manipulation.Listening", "Manipulation.Clarify"}

\* the states that invoke fhSpeak
SpeakStates == {"Loop.Speaking", "Manipulation.Clarify", "End"} \cup ConditionStates

\* the text of each condition state
ConditionText(s, person) ==
    CASE s = "Manipulation.SpeakingWithPause_Condition1" -> "........   The " \o person \o "?"
      [] s = "Manipulation.SpeakingWithLaughter_Condition2" -> "Hahahaha! The " \o person \o "?"
      [] s = "Manipulation.SpeakingWithBuffer_Condition3" -> "Hmmmmm, the " \o person \o "?"

Last(q) == q[Len(q)]

\* the input the active state hands to fhSpeak
SpeakInput ==
    CASE state = "Loop.Speaking" ->
            [text |-> Last(messages).content, isFirstMessage |-> isFirstMessage]
      [] state \in ConditionStates ->
            [text |-> ConditionText(state, extractedPerson), isFirstMessage |-> FALSE]
      [] state = "Manipulation.Clarify" ->
            [text |-> ClarifyPrompt, isFirstMessage |-> FALSE]
      [] state = "End" ->
            [text |-> ClosingLine, isFirstMessage |-> FALSE]

\* the input Loop.ProcessingResponse hands to chatCompletion
CompletionInput == [messages |-> messages]

----------------------------------------------------------------------------
(* The machine *)

Settled(src, type, output) == [src |-> src, type |-> type, output |-> output]

Init ==
    /\ state = "SetupFurhat.SetVoice"
    /\ messages = InitialMessages
    /\ lastResult = ""
    /\ extractedPerson = ""
    /\ isFirstMessage = TRUE
    /\ event = Settled("none", "init", "")
    /\ lastResponse = "none"
    /\ speakCalls = 0
    /\ draws = << >>
    /\ selectorRuns = 0
    /\ loopSaid = ""
    /\ clarifyVisits = 0

\* entering a state that invokes fhSpeak
EnterSpeaking(target) ==
    /\ speakCalls < MaxSpeakCalls
    /\ speakCalls' = speakCalls + 1
    /\ state' = target

\* entering Manipulation: its initial state DetermineTheManipulationState is
\* left at once by the always transition the two draws select
EnterManipulation ==
    \E d1, d2 \in Draws :
        /\ EnterSpeaking(DetermineTheManipulationState(d1, d2))
        /\ draws' = IF isSpeakingWithBuffer(d1) THEN <<d1>> ELSE <<d1, d2>>
        /\ selectorRuns' = selectorRuns + 1

\* Loop.Speaking has been entered: its invoke input is the last message
SayLastMessage == loopSaid' = Last(messages').content

SetVoice_onDone ==
    /\ state = "SetupFurhat.SetVoice"
    /\ state' = "SetupFurhat.AttendUser"
    /\ event' = Settled("fhSetVoice", "done", "")
    /\ UNCHANGED <<context, lastResponse, speakCalls>>
    /\ UNCHANGED <<draws, selectorRuns, loopSaid, clarifyVisits>>

\* a slip: the failure of SetVoice aimed at AttendUser like its success
SetVoice_onError_Attends ==
    /\ state = "SetupFurhat.SetVoice"
    /\ state' = "SetupFurhat.AttendUser"
    /\ event' = Settled("fhSetVoice", "error", "")
    /\ UNCHANGED <<context, lastResponse, speakCalls>>
    /\ UNCHANGED <<draws, selectorRuns, loopSaid, clarifyVisits>>

SetVoice_onError ==
    /\ state = "SetupFurhat.SetVoice"
    /\ EnterSpeaking("Loop.Speaking")
    /\ event' = Settled("fhSetVoice", "error", "")
    /\ UNCHANGED <<context, lastResponse>>
    /\ SayLastMessage
    /\ UNCHANGED <<draws, selectorRuns, clarifyVisits>>

AttendUser_onDone ==
    /\ state = "SetupFurhat.AttendUser"
    /\ EnterSpeaking("Loop.Speaking")
    /\ event' = Settled("fhAttend", "done", "")
    /\ UNCHANGED <<context, lastResponse>>
    /\ SayLastMessage
    /\ UNCHANGED <<draws, selectorRuns, clarifyVisits>>

AttendUser_onError ==
    /\ state = "SetupFurhat.AttendUser"
    /\ EnterSpeaking("Loop.Speaking")
    /\ event' = Settled("fhAttend", "error", "")
    /\ UNCHANGED <<context, lastResponse>>
    /\ SayLastMessage
    /\ UNCHANGED <<draws, selectorRuns, clarifyVisits>>

LoopSpeaking_onDone ==
    /\ state = "Loop.Speaking"
    /\ state' = "Loop.Listening"
    /\ isFirstMessage' = FALSE
    /\ event' = Settled("fhSpeak", "done", "")
    /\ UNCHANGED <<messages, lastResult, extractedPerson, lastResponse, speakCalls>>
    /\ UNCHANGED <<draws, selectorRuns, loopSaid, clarifyVisits>>

\* a slip: the flag cleared on the failure transition as well
LoopSpeaking_onError_Clears ==
    /\ state = "Loop.Speaking"
    /\ state' = "Loop.Listening"
    /\ isFirstMessage' = FALSE
    /\ event' = Settled("fhSpeak", "error", "")
    /\ UNCHANGED <<messages, lastResult, extractedPerson, lastResponse, speakCalls>>
    /\ UNCHANGED <<draws, selectorRuns, loopSaid, clarifyVisits>>

LoopSpeaking_onError ==
    /\ state = "Loop.Speaking"
    /\ state' = "Loop.Listening"
    /\ event' = Settled("fhSpeak", "error", "")
    /\ UNCHANGED <<context, lastResponse, speakCalls>>
    /\ UNCHANGED <<draws, selectorRuns, loopSaid, clarifyVisits>>

\* first onDone transition of Loop.Listening: the utterance holds a decision
LoopListening_onDone_Decision ==
    \E utterance \in Utterances :
        /\ state = "Loop.Listening"
        /\ Len(messages) < MaxMessages
        /\ hasDecisionInUtterance(utterance)
        /\ EnterManipulation
        /\ lastResult' = utterance
        /\ extractedPerson' = extracted[utterance].value
        /\ messages' = Append(messages, Message("user", utterance))
        /\ event' = Settled("fhListen", "done", utterance)
        /\ UNCHANGED <<isFirstMessage, lastResponse>>
        /\ UNCHANGED <<loopSaid, clarifyVisits>>

\* a slip: the second transition clearing the subject it did not find
LoopListening_onDone_Default_Clears ==
    \E utterance \in Utterances :
        /\ state = "Loop.Listening"
        /\ Len(messages) < MaxMessages
        /\ ~hasDecisionInUtterance(utterance)
        /\ state' = "Loop.ProcessingResponse"
        /\ lastResult' = utterance
        /\ extractedPerson' = ""
        /\ messages' = Append(messages, Message("user", utterance))
        /\ event' = Settled("fhListen", "done", utterance)
        /\ UNCHANGED <<isFirstMessage, lastResponse, speakCalls>>
        /\ UNCHANGED <<draws, selectorRuns, loopSaid, clarifyVisits>>

\* second onDone transition of Loop.Listening
LoopListening_onDone_Default ==
    \E utterance \in Utterances :
        /\ state = "Loop.Listening"
        /\ Len(messages) < MaxMessages
        /\ ~hasDecisionInUtterance(utterance)
        /\ state' = "Loop.ProcessingResponse"
        /\ lastResult' = utterance
        /\ messages' = Append(messages, Message("user", utterance))
        /\ event' = Settled("fhListen", "done", utterance)
        /\ UNCHANGED <<extractedPerson, isFirstMessage, lastResponse, speakCalls>>
        /\ UNCHANGED <<draws, selectorRuns, loopSaid, clarifyVisits>>

\* a slip: the failure of Listen clearing the first-message flag
LoopListening_onError_Clears ==
    /\ state = "Loop.Listening"
    /\ EnterSpeaking("Loop.Speaking")
    /\ event' = Settled("fhListen", "error", "")
    /\ isFirstMessage' = FALSE
    /\ UNCHANGED <<messages, lastResult, extractedPerson, lastResponse>>
    /\ SayLastMessage
    /\ UNCHANGED <<draws, selectorRuns, clarifyVisits>>

LoopListening_onError ==
    /\ state = "Loop.Listening"
    /\ EnterSpeaking("Loop.Speaking")
    /\ event' = Settled("fhListen", "error", "")
    /\ UNCHANGED <<context, lastResponse>>
    /\ SayLastMessage
    /\ UNCHANGED <<draws, selectorRuns, clarifyVisits>>

\* a slip: the reply of the model appended under the role of the participant
ProcessingResponse_settled_AsUser ==
    \E response \in Responses :
        LET settled == chatCompletion(response)
        IN  /\ state = "Loop.ProcessingResponse"
            /\ EnterSpeaking("Loop.Speaking")
            /\ messages' =
                 IF settled.type = "done"
                 THEN Append(messages, Message("user", settled.output))
                 ELSE Append(messages, Message("user", Fallback))
            /\ event' = Settled("chatCompletion", settled.type, settled.output)
            /\ lastResponse' = response.kind
            /\ UNCHANGED <<lastResult, extractedPerson, isFirstMessage>>
            /\ SayLastMessage
            /\ UNCHANGED <<draws, selectorRuns, clarifyVisits>>

\* Loop.ProcessingResponse: onDone appends the actor's output, onError the fallback
ProcessingResponse_settled ==
    \E response \in Responses :
        LET settled == chatCompletion(response)
        IN  /\ state = "Loop.ProcessingResponse"
            /\ EnterSpeaking("Loop.Speaking")
            /\ messages' =
                 IF settled.type = "done"
                 THEN Append(messages, Message("assistant", settled.output))
                 ELSE Append(messages, Message("assistant", Fallback))
            /\ event' = Settled("chatCompletion", settled.type, settled.output)
            /\ lastResponse' = response.kind
            /\ UNCHANGED <<lastResult, extractedPerson, isFirstMessage>>
            /\ SayLastMessage
            /\ UNCHANGED <<draws, selectorRuns, clarifyVisits>>

Condition_onDone ==
    /\ state \in ConditionStates
    /\ state' = "Manipulation.Listening"
    /\ event' = Settled("fhSpeak", "done", "")
    /\ UNCHANGED <<context, lastResponse, speakCalls>>
    /\ UNCHANGED <<draws, selectorRuns, loopSaid, clarifyVisits>>

\* a slip: the failure of a condition state aimed at the Listening of Loop
Condition_onError_ToLoop ==
    /\ state \in ConditionStates
    /\ state' = "Loop.Listening"
    /\ event' = Settled("fhSpeak", "error", "")
    /\ UNCHANGED <<context, lastResponse, speakCalls>>
    /\ UNCHANGED <<draws, selectorRuns, loopSaid, clarifyVisits>>

Condition_onError ==
    /\ state \in ConditionStates
    /\ state' = "Manipulation.Listening"
    /\ event' = Settled("fhSpeak", "error", "")
    /\ UNCHANGED <<context, lastResponse, speakCalls>>
    /\ UNCHANGED <<draws, selectorRuns, loopSaid, clarifyVisits>>

ManipulationListening_onDone_Yes ==
    \E output \in Utterances :
        /\ state = "Manipulation.Listening"
        /\ onDoneTarget[output] = "End"
        /\ EnterSpeaking("End")
        /\ lastResult' = output
        /\ event' = Settled("fhListen", "done", output)
        /\ UNCHANGED <<messages, extractedPerson, isFirstMessage, lastResponse>>
        /\ clarifyVisits' = 0
        /\ UNCHANGED <<draws, selectorRuns, loopSaid>>

\* a slip: the assignment without the spread of context.messages
ManipulationListening_onDone_No_Overwrite ==
    \E output \in Utterances :
        /\ state = "Manipulation.Listening"
        /\ onDoneTarget[output] = "Loop.ProcessingResponse"
        /\ state' = "Loop.ProcessingResponse"
        /\ lastResult' = output
        /\ messages' = << Message("user", NotSure) >>
        /\ event' = Settled("fhListen", "done", output)
        /\ UNCHANGED <<extractedPerson, isFirstMessage, lastResponse, speakCalls>>
        /\ clarifyVisits' = 0
        /\ UNCHANGED <<draws, selectorRuns, loopSaid>>

ManipulationListening_onDone_No ==
    \E output \in Utterances :
        /\ state = "Manipulation.Listening"
        /\ onDoneTarget[output] = "Loop.ProcessingResponse"
        /\ state' = "Loop.ProcessingResponse"
        /\ lastResult' = output
        /\ messages' = Append(messages, Message("user", NotSure))
        /\ event' = Settled("fhListen", "done", output)
        /\ UNCHANGED <<extractedPerson, isFirstMessage, lastResponse, speakCalls>>
        /\ clarifyVisits' = 0
        /\ UNCHANGED <<draws, selectorRuns, loopSaid>>

\* a slip: a single clarification allowed per question
ManipulationListening_onDone_Other_Capped ==
    \E output \in Utterances :
        /\ state = "Manipulation.Listening"
        /\ onDoneTarget[output] = "Manipulation.Clarify"
        /\ clarifyVisits < 1
        /\ EnterSpeaking("Manipulation.Clarify")
        /\ lastResult' = output
        /\ event' = Settled("fhListen", "done", output)
        /\ UNCHANGED <<messages, extractedPerson, isFirstMessage, lastResponse>>
        /\ clarifyVisits' = clarifyVisits + 1
        /\ UNCHANGED <<draws, selectorRuns, loopSaid>>

ManipulationListening_onDone_Other ==
    \E output \in Utterances :
        /\ state = "Manipulation.Listening"
        /\ onDoneTarget[output] = "Manipulation.Clarify"
        /\ EnterSpeaking("Manipulation.Clarify")
        /\ lastResult' = output
        /\ event' = Settled("fhListen", "done", output)
        /\ UNCHANGED <<messages, extractedPerson, isFirstMessage, lastResponse>>
        /\ clarifyVisits' = clarifyVisits + 1
        /\ UNCHANGED <<draws, selectorRuns, loopSaid>>

\* a slip: the failure transition aimed at Listening itself, without the selector
ManipulationListening_onError_NoReroll ==
    /\ state = "Manipulation.Listening"
    /\ state' = "Manipulation.Listening"
    /\ event' = Settled("fhListen", "error", "")
    /\ UNCHANGED <<context, lastResponse, speakCalls>>
    /\ clarifyVisits' = 0
    /\ UNCHANGED <<draws, selectorRuns, loopSaid>>

ManipulationListening_onError ==
    /\ state = "Manipulation.Listening"
    /\ EnterManipulation
    /\ event' = Settled("fhListen", "error", "")
    /\ UNCHANGED <<context, lastResponse>>
    /\ clarifyVisits' = 0
    /\ UNCHANGED loopSaid

\* a slip: the clarification dropping the subject
Clarify_onDone_Forgets ==
    /\ state = "Manipulation.Clarify"
    /\ state' = "Manipulation.Listening"
    /\ extractedPerson' = ""
    /\ event' = Settled("fhSpeak", "done", "")
    /\ UNCHANGED <<messages, lastResult, isFirstMessage, lastResponse, speakCalls>>
    /\ UNCHANGED <<draws, selectorRuns, loopSaid, clarifyVisits>>

Clarify_onDone ==
    /\ state = "Manipulation.Clarify"
    /\ state' = "Manipulation.Listening"
    /\ event' = Settled("fhSpeak", "done", "")
    /\ UNCHANGED <<context, lastResponse, speakCalls>>
    /\ UNCHANGED <<draws, selectorRuns, loopSaid, clarifyVisits>>

Clarify_onError ==
    /\ state = "Manipulation.Clarify"
    /\ state' = "Manipulation.Listening"
    /\ event' = Settled("fhSpeak", "error", "")
    /\ UNCHANGED <<context, lastResponse, speakCalls>>
    /\ UNCHANGED <<draws, selectorRuns, loopSaid, clarifyVisits>>

End_onDone ==
    /\ state = "End"
    /\ state' = "Done"
    /\ messages' = Append(messages, Message("assistant", ClosingLine))
    /\ event' = Settled("fhSpeak", "done", "")
    /\ UNCHANGED <<lastResult, extractedPerson, isFirstMessage, lastResponse, speakCalls>>
    /\ UNCHANGED <<draws, selectorRuns, loopSaid, clarifyVisits>>

\* a slip: the closing line tried again when it could not be spoken
End_onError_Retries ==
    /\ state = "End"
    /\ EnterSpeaking("End")
    /\ event' = Settled("fhSpeak", "error", "")
    /\ UNCHANGED <<context, lastResponse>>
    /\ UNCHANGED <<draws, selectorRuns, loopSaid, clarifyVisits>>

End_onError ==
    /\ state = "End"
    /\ state' = "Done"
    /\ event' = Settled("fhSpeak", "error", "")
    /\ UNCHANGED <<context, lastResponse, speakCalls>>
    /\ UNCHANGED <<draws, selectorRuns, loopSaid, clarifyVisits>>

Next ==
    \/ SetVoice_onDone
    \/ SetVoice_onError
    \/ AttendUser_onDone
    \/ AttendUser_onError
    \/ LoopSpeaking_onDone
    \/ LoopSpeaking_onError
    \/ LoopListening_onDone_Decision
    \/ LoopListening_onDone_Default
    \/ LoopListening_onError
    \/ ProcessingResponse_settled
    \/ Condition_onDone
    \/ Condition_onError
    \/ ManipulationListening_onDone_Yes
    \/ ManipulationListening_onDone_No
    \/ ManipulationListening_onDone_Other
    \/ ManipulationListening_onError
    \/ Clarify_onDone
    \/ Clarify_onError
    \/ End_onDone
    \/ End_onError

Spec == Init /\ [][Next]_vars

\* the Voice call of End settles: its promise resolves or rejects
FairSpec == Spec /\ WF_vars(End_onDone \/ End_onError)

----------------------------------------------------------------------------
(* Properties *)

IsPrefix(p, q) == Len(p) <= Len(q) /\ SubSeq(q, 1, Len(p)) = p

\* the last transition was the settlement of an actor of the given kind
Heard(e) == e.src = "fhListen" /\ e.type = "done"

\* a step in which a service failed: an actor rejected, or the completion
\* endpoint did not answer the request with a completion
ServiceFailed ==
    \/ event'.type = "error"
    \/ state = "Loop.ProcessingResponse" /\ lastResponse' # "ok"

DoneOnlyThroughEnd == state' = "Done" /\ state # "Done" => state = "End"

EndOnlyOnAffirmation ==
    state' = "End" /\ state # "End" =>
        /\ state = "Manipulation.Listening"
        /\ Heard(event')
        /\ affirmativeGuard(event'.output)

\* C1 as stated: Done is entered only from End, End only from
\* Manipulation.Listening on a recognized affirmative utterance, and no step
\* in which a service fails, whatever the state, leads to End or Done.
C1_NoFailureEverCloses ==
    [][ /\ DoneOnlyThroughEnd
        /\ EndOnlyOnAffirmation
        /\ (ServiceFailed => state' \notin {"End", "Done"}) ]_vars

\* C1 amended: Done is entered only from End, End only from
\* Manipulation.Listening on a recognized affirmative utterance; a service
\* failure in any state other than End never leads to End or Done, and in End
\* the failure of the closing Voice call leads to Done as its success does.
C1_ClosesOnlyAfterAffirmation ==
    [][ /\ DoneOnlyThroughEnd
        /\ EndOnlyOnAffirmation
        /\ (ServiceFailed /\ state # "End" => state' \notin {"End", "Done"})
        /\ (state = "End" => state' = "Done") ]_vars

\* C1 witness: the session was closed by a closing line that failed
C1_Witness == state = "Done" /\ event.src = "fhSpeak" /\ event.type = "error"

\* C2: across every transition the old messages are a prefix of the new ones,
\* the first two entries are the seed system message and the seed greeting,
\* and every later entry has role user or assistant.
C2_MessagesAppendOnly ==
    [][ /\ IsPrefix(messages, messages')
        /\ SubSeq(messages', 1, 2) = InitialMessages
        /\ \A i \in 3..Len(messages') : messages'[i].role \in {"user", "assistant"} ]_vars

\* C2 witness: the transcript has grown by the substituted answer and a completion
C2_Witness ==
    /\ Len(messages) >= 5
    /\ \E i \in 3..Len(messages) : messages[i] = Message("user", NotSure)
    /\ Last(messages).role = "assistant"

\* C3: on an utterance u in Loop.Listening exactly one user message u is
\* appended and lastResult is u; if u holds a decision about p then
\* extractedPerson is p and the machine is in Manipulation, otherwise
\* extractedPerson is unchanged and the machine is in Loop.ProcessingResponse.
C3_LoopListeningOnDone ==
    [][ state = "Loop.Listening" /\ Heard(event') =>
          LET u == event'.output
              p == extracted[u]
          IN  /\ messages' = Append(messages, Message("user", u))
              /\ lastResult' = u
              /\ IF ~p.isNull
                 THEN extractedPerson' = p.value /\ state' \in ManipulationStates
                 ELSE extractedPerson' = extractedPerson
                      /\ state' = "Loop.ProcessingResponse" ]_vars

\* C3 witness: a subject was extracted in an earlier turn and an utterance
\* without a decision has just been heard in Loop.Listening
C3_Witness ==
    /\ state = "Loop.ProcessingResponse"
    /\ Heard(event)
    /\ extractedPerson = "pilot"
    /\ extracted[event.output].isNull
    /\ Last(messages) = Message("user", lastResult)

\* C4 as stated: in Manipulation.Listening every utterance whose lower-cased,
\* trimmed form is "yes", "yeah", "positive" or "yep", or contains "yes",
\* moves the machine to End.
C4_AffirmativeSetEnds ==
    [][ state = "Manipulation.Listening" /\ Heard(event') /\ saidYes(event'.output)
          => state' = "End" ]_vars

\* the transcripts whose normalized form contains both "yes" and "no"
YesAndNo ==
    { u \in Utterances :
        /\ includes(trim(toLowerCase(u)), "yes")
        /\ includes(trim(toLowerCase(u)), "no") }

\* C5: in Manipulation.Listening an utterance whose normalized form contains
\* both "yes" and "no" moves the machine to End, not to
\* Loop.ProcessingResponse, and appends nothing to messages.
C5_YesBeforeNo ==
    [][ /\ state = "Manipulation.Listening"
        /\ Heard(event')
        /\ event'.output \in YesAndNo
        => /\ state' = "End"
           /\ messages' = messages ]_vars

\* C5 witness: "Yes, no" was heard in Manipulation.Listening and closed the session
C5_Witness ==
    /\ state = "End"
    /\ Heard(event)
    /\ event.output = "Yes, no"
    /\ Last(messages).content # NotSure

\* the question a condition state puts about the extracted subject
IsManipulationQuestion(text) ==
    \E c \in ConditionStates : text = ConditionText(c, extractedPerson)

\* C6 as stated: on a negative utterance in Manipulation.Listening the user
\* message "I am not sure." is appended, the machine goes to
\* Loop.ProcessingResponse without another Voice call, and the history handed
\* to the Completion Service holds the manipulation question that was spoken
\* and the participant's answer.
C6_NegativeResumesWithExchange ==
    [][ /\ state = "Manipulation.Listening"
        /\ Heard(event')
        /\ ~affirmativeGuard(event'.output)
        /\ negativeGuard(event'.output)
        => /\ messages' = Append(messages, Message("user", NotSure))
           /\ state' = "Loop.ProcessingResponse"
           /\ speakCalls' = speakCalls
           /\ LET history == CompletionInput'.messages
              IN  /\ \E i \in 1..Len(history) :
                        IsManipulationQuestion(history[i].content)
                  /\ \E i \in 1..Len(history) :
                        history[i].content = event'.output ]_vars

\* C7 as stated: when the request to the completion endpoint fails (network
\* error or non-OK response) in Loop.ProcessingResponse, the assistant message
\* appended is the fixed fallback, the next state is Loop.Speaking, and the
\* text handed to the Voice Service there is that fallback, not an error text.
C7_FailureGivesFallback ==
    [][ state = "Loop.ProcessingResponse" /\ lastResponse' \in {"network_error", "not_ok"}
        => /\ messages' = Append(messages, Message("assistant", Fallback))
           /\ state' = "Loop.Speaking"
           /\ SpeakInput'.text = Fallback ]_vars

\* C8 as stated: whenever the machine is in Done the last entry of messages is
\* the assistant message "Thank you for your participation.".
C8_DoneEndsWithClosingLine ==
    state = "Done" => Last(messages) = Message("assistant", ClosingLine)

\* C9: isFirstMessage is true initially; a transition makes it false exactly
\* when it is the success of a Voice call in Loop.Speaking while the flag is
\* still true; every other transition leaves it as it is, so once false it
\* stays false.
C9_FirstMessageFlag ==
    [][ /\ (state = "SetupFurhat.SetVoice" => isFirstMessage)
        /\ isFirstMessage' =
             (isFirstMessage /\
                ~(state = "Loop.Speaking" /\ event'.src = "fhSpeak" /\ event'.type = "done")) ]_vars

\* C9 witness: the flag has been cleared by a Loop.Speaking call that
\* succeeded after an earlier Voice call
C9_Witness ==
    /\ state = "Loop.Listening"
    /\ event.src = "fhSpeak" /\ event.type = "done"
    /\ ~isFirstMessage
    /\ speakCalls >= 2

\* C10 as stated: every Voice Service call after the first one of the session
\* is made with the first-turn flag false.
C10_OnlyFirstCallFlagged ==
    state \in SpeakStates /\ speakCalls >= 2 => ~SpeakInput.isFirstMessage

Failed(e, src) == e.src = src /\ e.type = "error"

\* the pairs of cells on which the guard chain ends in the condition state c
Outcomes(c) ==
    { d \in Draws \X Draws : DetermineTheManipulationState(d[1], d[2]) = c }

\* C11: the selector picks Condition 3 iff the first draw is below 1/3,
\* otherwise draws again and picks Condition 2 iff the second draw is below
\* 2/3, else Condition 1; of the nine pairs of cells three give Condition 3,
\* four Condition 2 and two Condition 1.
C11_TwoStageSelector ==
    /\ state \in ConditionStates =>
         /\ (state = "Manipulation.SpeakingWithBuffer_Condition3")
               = (draws[1] = 0)
         /\ (Len(draws) = 1) = (draws[1] = 0)
         /\ (state = "Manipulation.SpeakingWithLaughter_Condition2")
               = (draws[1] \in {1, 2} /\ draws[2] \in {0, 1})
         /\ (state = "Manipulation.SpeakingWithPause_Condition1")
               = (draws[1] \in {1, 2} /\ draws[2] = 2)
    /\ Cardinality(Outcomes("Manipulation.SpeakingWithBuffer_Condition3")) = 3
    /\ Cardinality(Outcomes("Manipulation.SpeakingWithLaughter_Condition2")) = 4
    /\ Cardinality(Outcomes("Manipulation.SpeakingWithPause_Condition1")) = 2

\* C11 witness: both guards failed and the pause condition was entered
C11_Witness ==
    state = "Manipulation.SpeakingWithPause_Condition1" /\ draws = <<1, 2>>

\* C12 as stated: the selector is evaluated at most once in a session.
C12_SelectorRunsOnce == selectorRuns <= 1

\* C12 amended: the selector is evaluated once on every entry into
\* Manipulation (a decision heard in Loop.Listening) and once more on every
\* Listen failure in Manipulation.Listening, and by no other transition.
C12_SelectorRunsPerEntryAndFailure ==
    [][ selectorRuns' = selectorRuns +
          (IF \/ state = "Loop.Listening" /\ Heard(event')
                    /\ ~extracted[event'.output].isNull
              \/ state = "Manipulation.Listening" /\ Failed(event', "fhListen")
           THEN 1 ELSE 0) ]_vars

\* C12 witness: a Listen failure in Manipulation.Listening made the selector run again
C12_Witness ==
    state \in ConditionStates /\ Failed(event, "fhListen") /\ selectorRuns = 2

----------------------------------------------------------------------------
(* The Decision Extractor on its own: extractPersonFromDecision called on   *)
(* every utterance made of at most MaxPhrases phrases, one space between    *)
(* words.  event.output holds the words of the utterance, lastResult its    *)
(* text and extractedPerson the value returned.                             *)

Phrases ==
    { <<"I", "want">>, <<"i">>, <<"want">>, <<"the">>, <<"Pilot">>,
      <<"to", "jump">>, <<"to">>, <<"jumping">> }

RECURSIVE Flatten(_)
Flatten(ps) == IF Len(ps) = 0 THEN << >> ELSE Head(ps) \o Flatten(Tail(ps))

RECURSIVE Join(_)
Join(ws) ==
    IF Len(ws) = 0 THEN ""
    ELSE IF Len(ws) = 1 THEN ws[1]
    ELSE ws[1] \o " " \o Join(Tail(ws))

WordSequences == { Flatten(ps) : ps \in UNION { [1..n -> Phrases] : n \in 0..MaxPhrases } }

ExtractorInit ==
    /\ state = "extractPersonFromDecision"
    /\ event \in { Settled("fhListen", "done", ws) : ws \in WordSequences }
    /\ messages = InitialMessages
    /\ lastResult = ""
    /\ extractedPerson = ""
    /\ isFirstMessage = TRUE
    /\ lastResponse = "none"
    /\ speakCalls = 0
    /\ draws = << >>
    /\ selectorRuns = 0
    /\ loopSaid = ""
    /\ clarifyVisits = 0

Extractor_call ==
    /\ state = "extractPersonFromDecision"
    /\ LET utterance == Join(event.output)
           person == extractPersonFromDecision(utterance)
       IN  /\ lastResult' = utterance
           /\ extractedPerson' = person.value
           /\ state' = IF person.isNull THEN "null" ELSE "person"
    /\ UNCHANGED <<messages, isFirstMessage, event, lastResponse, speakCalls,
                   draws, selectorRuns, loopSaid, clarifyVisits>>

ExtractorNext == Extractor_call

ExtractorSpec == ExtractorInit /\ [][ExtractorNext]_vars

----------------------------------------------------------------------------
(* What the pattern "I want (the) X to jump" means on a sequence of words *)

LowerWords(ws) == [i \in 1..Len(ws) |-> toLowerCase(ws[i])]

\* the readings of w as "... i want (the) X to jump ..." with "i" at a:
\* X is the words from..(to - 1), "to jump" stands at to
Readings(w, a) ==
    IF a + 2 > Len(w) \/ w[a] # "i" \/ w[a + 1] # "want" THEN {}
    ELSE { r \in [from : {a + 2, a + 3}, to : 1..Len(w), article : BOOLEAN] :
             /\ r.article = (r.from = a + 3)
             /\ (r.article => w[a + 2] = "the")
             /\ r.to > r.from
             /\ r.to + 1 <= Len(w)
             /\ w[r.to] = "to"
             /\ w[r.to + 1] = "jump" }

FirstStart(w) == Min({ a \in 1..Len(w) : Readings(w, a) # {} })

HasPattern(w) == \E a \in 1..Len(w) : Readings(w, a) # {}

Subject(w, r) == Join(SubSeq(w, r.from, r.to - 1))

\* the reading at the first start whose subject is the shortest
ShortestReading(w) ==
    LET rs == Readings(w, FirstStart(w))
    IN  CHOOSE r \in rs : \A q \in rs : r.to - r.from <= q.to - q.from

\* the reading at the first start that takes a "the" after "want" as the
\* article if any reading does, and then stops at the nearest "to jump"
ArticleFirstReading(w) ==
    LET rs == Readings(w, FirstStart(w))
        as == IF \E r \in rs : r.article THEN { r \in rs : r.article } ELSE rs
    IN  CHOOSE r \in as : \A q \in as : r.to <= q.to

Returned == state \in {"null", "person"}

\* C13 as stated: on every utterance the extractor returns the lower-cased
\* subject of the first, shortest match of "I want (the) X to jump", and null
\* when the utterance does not hold the pattern.
C13_FirstShortestMatch ==
    Returned =>
        LET w == LowerWords(event.output)
        IN  IF HasPattern(w)
            THEN state = "person" /\ extractedPerson = Subject(w, ShortestReading(w))
            ELSE state = "null"

\* C13 amended: on every utterance that holds the pattern the extractor
\* returns the lower-cased subject of the first match, in which a "the" right
\* after "want" is taken as the article whenever the rest can still match and
\* X then ends at the nearest "to jump"; it returns null on every other
\* utterance; the call leaves the context alone.
C13_FirstArticleFirstMatch ==
    Returned =>
        LET w == LowerWords(event.output)
        IN  /\ IF HasPattern(w)
               THEN state = "person" /\ extractedPerson = Subject(w, ArticleFirstReading(w))
               ELSE state = "null"
            /\ messages = InitialMessages
            /\ isFirstMessage

\* C13 witness: "the" followed at once by "to jump" and a second "to jump"
C13_Witness ==
    /\ state = "person"
    /\ lastResult = "I want the to jump to jump"
    /\ extractedPerson = "to jump"

\* C14: extractedPerson is changed only by the decision branch of
\* Loop.Listening, which sets it to the extracted subject; every other
\* transition, and every transition taken inside Manipulation, leaves it as
\* it is.
C14_OnlyDecisionSetsPerson ==
    [][ /\ extractedPerson' # extractedPerson =>
              /\ state = "Loop.Listening"
              /\ state' \in ConditionStates
              /\ Heard(event')
              /\ ~extracted[event'.output].isNull
              /\ extractedPerson' = extracted[event'.output].value
        /\ state \in ManipulationStates \cup {"Loop.Speaking", "Loop.ProcessingResponse", "End"} =>
              extractedPerson' = extractedPerson
        /\ state = "Loop.Listening" /\ state' \notin ConditionStates =>
              extractedPerson' = extractedPerson ]_vars

\* C14 witness: back in Manipulation.Listening after a re-roll and a
\* clarification, the subject still the one extracted
C14_Witness ==
    /\ state = "Manipulation.Listening"
    /\ selectorRuns = 2
    /\ clarifyVisits = 1
    /\ extractedPerson = "pilot"

\* C15 as stated: in every sub-state of Manipulation extractedPerson is
\* non-empty and is the subject extracted from the user message Loop.Listening
\* appended last, and the question of a condition state has a subject.
C15_SubjectNonEmptyInManipulation ==
    state \in ManipulationStates =>
        /\ extractedPerson # ""
        /\ Last(messages).role = "user"
        /\ Last(messages).content \in Utterances
        /\ ~extracted[Last(messages).content].isNull
        /\ extractedPerson = extracted[Last(messages).content].value
        /\ state \in ConditionStates => SpeakInput.text # ConditionText(state, "")

SetupStates == {"SetupFurhat.SetVoice", "SetupFurhat.AttendUser"}

\* C16: a failure of SetVoice leads straight to Loop.Speaking and the
\* Attention Service is never invoked afterwards; a success of SetVoice leads
\* to AttendUser, entered from nowhere else, and AttendUser leads to
\* Loop.Speaking on success and on failure; both outcomes of a setup step can
\* be taken; Setup leaves the context unchanged and is never re-entered.
C16_SetupFallsThrough ==
    [][ /\ state = "SetupFurhat.SetVoice" =>
              /\ ENABLED SetVoice_onDone
              /\ ENABLED SetVoice_onError
              /\ event'.src = "fhSetVoice"
              /\ event'.type = "error" => state' = "Loop.Speaking"
              /\ event'.type = "done" => state' = "SetupFurhat.AttendUser"
        /\ state = "SetupFurhat.AttendUser" =>
              /\ ENABLED AttendUser_onDone
              /\ ENABLED AttendUser_onError
              /\ event'.src = "fhAttend"
              /\ state' = "Loop.Speaking"
        /\ state \in SetupStates => context' = context
        /\ state' = "SetupFurhat.AttendUser" =>
              state = "SetupFurhat.SetVoice" /\ event'.type = "done"
        /\ state' # "SetupFurhat.SetVoice"
        /\ state \notin SetupStates => state' \notin SetupStates ]_vars

\* C16 witness: SetVoice has failed and the first prompt is being spoken
C16_Witness ==
    /\ state = "Loop.Speaking"
    /\ Failed(event, "fhSetVoice")
    /\ messages = InitialMessages
    /\ isFirstMessage
    /\ speakCalls = 1

\* C17: a failure of the Listen Service leaves the context unchanged; from
\* Loop.Listening the machine returns to Loop.Speaking and the Voice call made
\* there has the text of the previous Loop.Speaking call; from
\* Manipulation.Listening the selector is run once more and the condition
\* state drawn asks about the same subject.
C17_ListenFailureReprompts ==
    [][ Failed(event', "fhListen") =>
          /\ state \in {"Loop.Listening", "Manipulation.Listening"}
          /\ context' = context
          /\ state = "Loop.Listening" =>
                /\ state' = "Loop.Speaking"
                /\ speakCalls' = speakCalls + 1
                /\ SpeakInput'.text = loopSaid
                /\ selectorRuns' = selectorRuns
          /\ state = "Manipulation.Listening" =>
                /\ state' \in ConditionStates
                /\ speakCalls' = speakCalls + 1
                /\ selectorRuns' = selectorRuns + 1
                /\ state' = DetermineTheManipulationState(draws'[1], draws'[Len(draws')])
                /\ SpeakInput'.text = ConditionText(state', extractedPerson) ]_vars

\* C17 witness: a reply of the model is being spoken again after Listen failed
C17_Witness ==
    /\ state = "Loop.Speaking"
    /\ Failed(event, "fhListen")
    /\ Len(messages) > Len(InitialMessages)
    /\ Last(messages).role = "assistant"
    /\ loopSaid = Last(messages).content
    /\ speakCalls = 3

ListeningOf(s) == IF s = "Loop.Speaking" THEN "Loop.Listening" ELSE "Manipulation.Listening"

VoiceSucceeds == Next /\ event'.src = "fhSpeak" /\ event'.type = "done"

VoiceFails == Next /\ Failed(event', "fhSpeak")

\* C18: in Loop.Speaking, in every condition state and in Clarify the Voice
\* call can succeed and can fail, both outcomes lead to the Listening state of
\* the same region, and the failure leaves messages, lastResult and
\* extractedPerson unchanged.
C18_VoiceFailureSameTarget ==
    [][ (state \in {"Loop.Speaking", "Manipulation.Clarify"} \cup ConditionStates) =>
          /\ ENABLED VoiceSucceeds
          /\ ENABLED VoiceFails
          /\ event'.src = "fhSpeak"
          /\ state' = ListeningOf(state)
          /\ event'.type = "error" =>
                /\ messages' = messages
                /\ lastResult' = lastResult
                /\ extractedPerson' = extractedPerson ]_vars

\* C18 witness: the question of a condition state could not be spoken and the
\* answer is awaited all the same
C18_Witness ==
    /\ state = "Manipulation.Listening"
    /\ Failed(event, "fhSpeak")
    /\ clarifyVisits = 0
    /\ extractedPerson = "pilot"

\* the utterances of the vocabulary that say neither yes nor no
Ambiguous == { u \in Utterances : ~saidYes(u) /\ ~saidNo(u) }

HeardAmbiguous == Next /\ Heard(event') /\ event'.output \in Ambiguous

Affirmative == { u \in Utterances : affirmativeGuard(u) }

\* C20: an utterance accepted by the affirmative transition of
\* Manipulation.Listening starts the one Voice call of End, with the closing
\* line; if that call settles Done is reached, by a single step that makes no
\* Voice, Listen, Completion or selector call; from Done no step is taken.
C20_AffirmativeCommitsToDone ==
    /\ (state = "End") ~> (state = "Done")
    /\ [][ /\ state = "Manipulation.Listening" /\ Heard(event') /\ event'.output \in Affirmative =>
                 /\ state' = "End"
                 /\ speakCalls' = speakCalls + 1
                 /\ SpeakInput'.text = ClosingLine
                 /\ UNCHANGED <<selectorRuns, lastResponse, messages>>
           /\ state' = "End" =>
                 /\ state = "Manipulation.Listening"
                 /\ Heard(event')
                 /\ event'.output \in Affirmative
           /\ state = "End" =>
                 /\ state' = "Done"
                 /\ event'.src = "fhSpeak"
                 /\ UNCHANGED <<speakCalls, selectorRuns, lastResponse, lastResult>>
           /\ state # "Done" ]_vars

\* C20 witness: the session closed after "yes", the closing line spoken
C20_Witness ==
    /\ state = "Done"
    /\ event = Settled("fhSpeak", "done", "")
    /\ lastResult \in Affirmative
    /\ Last(messages) = Message("assistant", ClosingLine)
    /\ selectorRuns = 1
    /\ speakCalls = 3

\* C21: when Loop.Speaking invokes the Voice Service the last entry of
\* messages, whose content it speaks, has role assistant; when
\* Loop.ProcessingResponse invokes the Completion Service the last entry of
\* the messages it sends has role user; messages never holds two assistant
\* entries in a row.
C21_RolesAtServiceCalls ==
    /\ state = "Loop.Speaking" =>
          /\ Last(messages).role = "assistant"
          /\ SpeakInput.text = Last(messages).content
    /\ state = "Loop.ProcessingResponse" =>
          Last(CompletionInput.messages).role = "user"
    /\ \A i \in 1..(Len(messages) - 1) :
          ~(messages[i].role = "assistant" /\ messages[i + 1].role = "assistant")

\* C21 witness: the reply to "I am not sure." is being spoken after the
\* negative branch of Manipulation, two user entries before it
C21_Witness ==
    /\ state = "Loop.Speaking"
    /\ event.src = "chatCompletion"
    /\ Len(messages) >= 3
    /\ messages[Len(messages) - 1] = Message("user", NotSure)
    /\ messages[Len(messages) - 2].role = "user"
    /\ saidNo(lastResult)

====
